---- MODULE Spec2Model ----
(***************************************************************************)
(* A model of package migrator (migrator.go, version.go): the registry of  *)
(* migrations, the versions bookkeeping table, and Migrate as a sequence   *)
(* of database steps, one transaction per selected version.                *)
(*                                                                         *)
(* Version timestamps are Go strings.  They are compared as Go compares    *)
(* strings: bytewise, on the byte values given by Bytes.                   *)
(***************************************************************************)
EXTENDS Naturals, Sequences, FiniteSets

VARIABLES migrations, panicked, tableExists, rows, effects, mig

vars == <<migrations, panicked, tableExists, rows, effects, mig>>

(***************************************************************************)
(* Bounds and the input universe.                                          *)
(***************************************************************************)

\* number of real (non-sentinel) versions that can be registered
MaxReal == 3

\* the empty string
Empty == ""

\* the version registered by init()
Sentinel == "00010101T000000Z"

\* the k-th real version: timestamps of the form callers register
RealVersion(k) ==
    CASE k = 1 -> "20200101T000000Z"
      [] k = 2 -> "20200201T000000Z"
      [] k = 3 -> "20200301T000000Z"
      [] k = 4 -> "20200401T000000Z"
      [] k = 5 -> "20200501T000000Z"

RealVersions == {RealVersion(k) : k \in 1..MaxReal}

\* never registered, lies between the first two real versions
VMid == "20200115T000000Z"

\* never registered, sorts below the sentinel
VLow == "00000101T000000Z"

\* the bytes of "yyyymmddT000000Z" for the eight date digits d
Stamp(d) ==
    [i \in 1..16 |-> IF i <= 8 THEN 48 + d[i]
                     ELSE IF i = 9 THEN 84
                     ELSE IF i = 16 THEN 90
                     ELSE 48]

\* the bytes of the strings above
Bytes(s) ==
    CASE s = "" -> << >>
      [] s = "00010101T000000Z" -> Stamp(<<0, 0, 0, 1, 0, 1, 0, 1>>)
      [] s = "00000101T000000Z" -> Stamp(<<0, 0, 0, 0, 0, 1, 0, 1>>)
      [] s = "20200115T000000Z" -> Stamp(<<2, 0, 2, 0, 0, 1, 1, 5>>)
      [] s = "20200101T000000Z" -> Stamp(<<2, 0, 2, 0, 0, 1, 0, 1>>)
      [] s = "20200201T000000Z" -> Stamp(<<2, 0, 2, 0, 0, 2, 0, 1>>)
      [] s = "20200301T000000Z" -> Stamp(<<2, 0, 2, 0, 0, 3, 0, 1>>)
      [] s = "20200401T000000Z" -> Stamp(<<2, 0, 2, 0, 0, 4, 0, 1>>)
      [] s = "20200501T000000Z" -> Stamp(<<2, 0, 2, 0, 0, 5, 0, 1>>)

\* versions passed to Register: the sentinel again, and real versions, which
\* are timestamps that sort after the sentinel
RegisterVersions == RealVersions \cup {Sentinel}

\* targets passed to Migrate
Targets == RealVersions \cup {Empty, Sentinel, VMid, VLow}

\* names passed to Register
Names == {"m"}

\* the migrators that may run Migrate
Migrators == {"m1", "m2"}

(***************************************************************************)
(* Go values.                                                              *)
(***************************************************************************)

\* a nil migrationFunc
Nil == "nil"

\* func empty: always returns nil
EmptyFunc == "empty"

\* a migrationFunc supplied by the caller of Register: may return an error
UserFunc == "fn"

\* the nil error
NoErr == "nil"

\* Migrate has not returned
Running == "running"

ErrExec == "ErrExec"
ErrQuery == "ErrQuery"
ErrBegin == "ErrBegin"
ErrAction == "ErrAction"
ErrRecord == "ErrRecord"
ErrCommit == "ErrCommit"
ErrRollback == "ErrRollback"

\* a < b on byte sequences: lexicographic, a proper prefix is smaller
BytesLess(a, b) ==
    LET n == IF Len(a) < Len(b) THEN Len(a) ELSE Len(b)
        differ == {i \in 1..n : a[i] # b[i]}
    IN  IF differ = {}
        THEN Len(a) < Len(b)
        ELSE LET d == CHOOSE i \in differ : \A j \in differ : i <= j
             IN  a[d] < b[d]

\* every string of the model
Strings == RealVersions \cup {Empty, Sentinel, VMid, VLow}

\* the pairs a < b of Go strings, by bytewise comparison (an enumerated set,
\* so that the comparison is made once per pair)
LessPairs ==
    {<<p[1], p[2]>> :
        p \in {q \in Strings \X Strings : BytesLess(Bytes(q[1]), Bytes(q[2]))}}

\* a < b on Go strings
StrLess(a, b) == <<a, b>> \in LessPairs

StrLessEq(a, b) == a = b \/ StrLess(a, b)

\* sort.Strings on the elements of S
RECURSIVE SortStrings(_)
SortStrings(S) ==
    IF S = {} THEN << >>
    ELSE LET lo == CHOOSE x \in S : \A y \in S : ~StrLess(y, x)
         IN  <<lo>> \o SortStrings(S \ {lo})

\* the set of elements of a sequence
Range(s) == {s[i] : i \in 1..Len(s)}

\* SortReverse that leaves vs in ascending order
SortReverseNone(vs) == vs

\* sort.Sort(sort.Reverse(sort.StringSlice(vs)))
RECURSIVE SortReverse(_)
SortReverse(vs) ==
    IF vs = << >> THEN << >>
    ELSE LET hi == CHOOSE x \in Range(vs) : \A y \in Range(vs) : ~StrLess(x, y)
         IN  <<hi>> \o SortReverse(SelectSeq(vs, LAMBDA x : x # hi))

\* sorted(): the registered versions in ascending order
sorted == SortStrings(DOMAIN migrations)

\* shouldMigrate with the UP lower bound made inclusive
shouldMigrateUpInclusive(version, current, target, up) ==
    IF ~up
    THEN StrLessEq(version, current) /\ StrLess(target, version)
    ELSE StrLessEq(current, version) /\ StrLessEq(version, target)

\* shouldMigrate with the DOWN lower bound made inclusive
shouldMigrateDownInclusive(version, current, target, up) ==
    IF ~up
    THEN StrLessEq(version, current) /\ StrLessEq(target, version)
    ELSE StrLess(current, version) /\ StrLessEq(version, target)

\* shouldMigrate that never applies the version registered by init()
shouldMigrateSkipFloor(version, current, target, up) ==
    IF ~up
    THEN StrLessEq(version, current) /\ StrLess(target, version)
    ELSE /\ version # Sentinel
         /\ StrLess(current, version) /\ StrLessEq(version, target)

\* shouldMigrate with the DOWN upper bound made exclusive
shouldMigrateDownExclusive(version, current, target, up) ==
    IF ~up
    THEN StrLess(version, current) /\ StrLess(target, version)
    ELSE StrLess(current, version) /\ StrLessEq(version, target)

\* shouldMigrate(version, current, target, up)
shouldMigrate(version, current, target, up) ==
    IF ~up
    THEN StrLessEq(version, current) /\ StrLess(target, version)
    ELSE StrLess(current, version) /\ StrLessEq(version, target)

\* ResolveTarget taking the first of sorted() for the empty target
ResolveTargetFirst(vs, target) ==
    IF target = Empty THEN vs[1] ELSE target

\* Migrate, lines 45-47: the empty target is the last of sorted()
ResolveTarget(vs, target) ==
    IF target = Empty THEN vs[Len(vs)] ELSE target

\* currentVersion with the rows ordered ascending: the least version
currentVersionLeast(table) ==
    IF table = << >> THEN Empty
    ELSE LET S == {table[i].version : i \in 1..Len(table)}
         IN  CHOOSE x \in S : \A y \in S : ~StrLess(y, x)

\* queryVersionsLast and currentVersion: the greatest version of the table,
\* "" on sql.ErrNoRows
currentVersion(table) ==
    IF table = << >> THEN Empty
    ELSE LET S == {table[i].version : i \in 1..Len(table)}
         IN  CHOOSE x \in S : \A y \in S : ~StrLess(x, y)

\* applied(version, vs)
applied(version, vs) ==
    \E i \in 1..Len(vs) : vs[i].version = version

(***************************************************************************)
(* Transactions: the statements executed on a sql.Tx take effect on the    *)
(* database at Commit and are dropped at Rollback.                         *)
(***************************************************************************)

\* the number of rows of table with version v
CountRows(table, v) ==
    Cardinality({j \in 1..Len(table) : table[j].version = v})

\* queryVersionsDelete: the table without the n rows of version v that the
\* DELETE statement found when it was executed; they are the first n such
\* rows, rows committed since are behind them
RECURSIVE DeleteRows(_, _, _)
DeleteRows(table, v, n) ==
    IF n = 0 \/ table = << >> THEN table
    ELSE IF Head(table).version = v THEN DeleteRows(Tail(table), v, n - 1)
    ELSE <<Head(table)>> \o DeleteRows(Tail(table), v, n)

\* ApplyRow that loses the inserted row
ApplyRowNoInsert(table, op) ==
    IF op.op = "delete" THEN DeleteRows(table, op.version, op.n)
    ELSE table

\* ApplyRow on a table whose version column is unique: no second row
ApplyRowUnique(table, op) ==
    IF op.op = "insert"
    THEN IF \E j \in 1..Len(table) : table[j].version = op.version
         THEN table
         ELSE Append(table, [version |-> op.version, name |-> op.name])
    ELSE IF op.op = "delete" THEN DeleteRows(table, op.version, op.n)
    ELSE table

\* effect of one statement on the versions table
ApplyRow(table, op) ==
    IF op.op = "insert" THEN Append(table, [version |-> op.version, name |-> op.name])
    ELSE IF op.op = "delete" THEN DeleteRows(table, op.version, op.n)
    ELSE table

\* effect of one statement on the schema objects made by migration actions
ApplyEffect(eff, op) ==
    IF op.op = "up" THEN eff \cup {op.version}
    ELSE IF op.op = "down" THEN eff \ {op.version}
    ELSE eff

RECURSIVE ApplyRows(_, _)
ApplyRows(table, ops) ==
    IF ops = << >> THEN table
    ELSE ApplyRows(ApplyRow(table, Head(ops)), Tail(ops))

RECURSIVE ApplyEffects(_, _)
ApplyEffects(eff, ops) ==
    IF ops = << >> THEN eff
    ELSE ApplyEffects(ApplyEffect(eff, Head(ops)), Tail(ops))

NoTx == [open |-> FALSE, ops |-> << >>]


(***************************************************************************)
(* State.                                                                  *)
(*   migrations   the registry: version -> [name, up, down]                *)
(*   panicked     << >>, or the panic raised by Register and its arguments *)
(*   tableExists  the versions table has been created                      *)
(*   rows         the committed rows of the versions table                 *)
(*   effects      the versions whose up action's work is committed         *)
(*   mig          per migrator, the locals of its Migrate call and a       *)
(*                record of what the call did: the rows at the call, the   *)
(*                versions a transaction was begun for, whose action was   *)
(*                invoked, that were committed, the version whose action   *)
(*                failed; again: the call repeats the previous one, which  *)
(*                returned nil, with nothing changed since; afterUp: the   *)
(*                previous call went UP from an empty table to a           *)
(*                registered version and returned nil; changed: the        *)
(*                registry or the table was changed by someone else since  *)
(*                the call; ended: the versions whose transaction Commit   *)
(*                or Rollback ended; stderr: the lines the call wrote to   *)
(*                os.Stderr; status, printed: the result of the latest     *)
(*                Status call and the lines it wrote to os.Stdout          *)
(***************************************************************************)

\* the migrator of the single-process specification
Single == {"m1"}

Idle ==
    [pc |-> "idle", arg |-> Empty, vs |-> << >>, target |-> Empty,
     current |-> Empty, up |-> TRUE, i |-> 0, tx |-> NoTx, err |-> NoErr,
     result |-> "none", rows0 |-> << >>, invoked |-> << >>, begun |-> << >>,
     committed |-> << >>, failed |-> Empty, again |-> FALSE, afterUp |-> FALSE,
     changed |-> FALSE, ended |-> << >>, stderr |-> << >>,
     status |-> "none", printed |-> << >>]

\* func init(): Register("00010101T000000Z", "nil", empty, empty)
Init ==
    /\ migrations = [v \in {Sentinel} |->
                        [name |-> "nil", up |-> EmptyFunc, down |-> EmptyFunc]]
    /\ panicked = << >>
    /\ tableExists = FALSE
    /\ rows = << >>
    /\ effects = {}
    /\ mig = [m \in Migrators |-> Idle]

\* no Migrate call is in progress
AllIdle == \A m \in Migrators : mig[m].pc = "idle"

\* Register without the check for a version registered twice
RegisterOverwrite(version, name, up, down) ==
    /\ panicked = << >>
    /\ AllIdle
    /\ IF up = Nil \/ down = Nil
       THEN /\ panicked' = <<"required", up, down>>
            /\ UNCHANGED <<migrations, mig>>
       ELSE /\ migrations' =
                [v \in DOMAIN migrations \cup {version} |->
                    IF v = version
                    THEN [name |-> name, up |-> up, down |-> down]
                    ELSE migrations[v]]
            /\ mig' = [m \in Migrators |-> [mig[m] EXCEPT !.changed = TRUE]]
            /\ UNCHANGED panicked
    /\ UNCHANGED <<tableExists, rows, effects>>

\* Register(version, name, up, down)
Register(version, name, up, down) ==
    /\ panicked = << >>
    /\ AllIdle
    /\ IF up = Nil \/ down = Nil
       THEN /\ panicked' = <<"required", up, down>>
            /\ UNCHANGED <<migrations, mig>>
       ELSE IF version \in DOMAIN migrations
       THEN /\ panicked' = <<"twice", version>>
            /\ UNCHANGED <<migrations, mig>>
       ELSE /\ migrations' =
                [v \in DOMAIN migrations \cup {version} |->
                    IF v = version
                    THEN [name |-> name, up |-> up, down |-> down]
                    ELSE migrations[v]]
            /\ mig' = [m \in Migrators |-> [mig[m] EXCEPT !.changed = TRUE]]
            /\ UNCHANGED panicked
    /\ UNCHANGED <<tableExists, rows, effects>>

\* MigrateCall that goes on to read the current version when the statement
\* creating the table failed
MigrateCallIgnoreErr(m, t, ok) ==
    /\ panicked = << >>
    /\ mig[m].pc = "idle"
    /\ mig' = [mig EXCEPT ![m] =
            [Idle EXCEPT !.arg = t,
                         !.vs = sorted,
                         !.target = ResolveTarget(sorted, t),
                         !.result = Running,
                         !.rows0 = rows,
                         !.pc = "current"]]
    /\ tableExists' = (tableExists \/ ok)
    /\ UNCHANGED <<migrations, panicked, rows, effects>>

\* Migrate, lines 43-52: sorted(), the target, CREATE TABLE IF NOT EXISTS
MigrateCall(m, t, ok) ==
    /\ panicked = << >>
    /\ mig[m].pc = "idle"
    /\ LET vs == sorted
           call == [Idle EXCEPT
                      !.arg = t,
                      !.vs = vs,
                      !.target = ResolveTarget(vs, t),
                      !.result = Running,
                      !.rows0 = rows,
                      !.again = /\ mig[m].result = NoErr
                                /\ mig[m].arg = t
                                /\ ~mig[m].changed,
                      !.afterUp = /\ mig[m].result = NoErr
                                  /\ mig[m].up
                                  /\ mig[m].rows0 = << >>
                                  /\ mig[m].arg \in Range(mig[m].vs)]
       IN  IF ok
           THEN /\ tableExists' = TRUE
                /\ mig' = [mig EXCEPT ![m] = [call EXCEPT !.pc = "current"]]
           ELSE /\ mig' = [mig EXCEPT ![m] = [call EXCEPT !.result = ErrExec]]
                /\ UNCHANGED tableExists
    /\ UNCHANGED <<migrations, panicked, rows, effects>>

\* Migrate, lines 54-64: the current version and the direction
QueryCurrent(m, ok) ==
    /\ mig[m].pc = "current"
    /\ IF ok
       THEN LET current == currentVersion(rows)
                up == ~StrLess(mig[m].target, current)
            IN  mig' = [mig EXCEPT ![m] =
                    [@ EXCEPT !.pc = "loop",
                              !.current = current,
                              !.up = up,
                              !.vs = IF up THEN @ ELSE SortReverse(@)]]
       ELSE mig' = [mig EXCEPT ![m] =
                    [@ EXCEPT !.pc = "idle",
                              !.result = ErrQuery,
                              !.stderr = Append(@, <<"error querying latest migration version",
                                                     Empty, ErrQuery>>)]]
    /\ UNCHANGED <<migrations, panicked, tableExists, rows, effects>>

\* the indexes of vs after i that the loop does not skip
Selected(r) ==
    {j \in (r.i + 1)..Len(r.vs) :
        shouldMigrate(r.vs[j], r.current, r.target, r.up)}

\* the least element of a nonempty set of numbers
Least(S) == CHOOSE j \in S : \A k \in S : j <= k

\* Migrate, lines 66-74: skip to the next selected version, db.Begin()
Begin(m, ok) ==
    /\ mig[m].pc = "loop"
    /\ Selected(mig[m]) # {}
    /\ LET j == Least(Selected(mig[m]))
       IN  IF ok
           THEN mig' = [mig EXCEPT ![m] =
                    [@ EXCEPT !.pc = "action",
                              !.i = j,
                              !.tx = [open |-> TRUE, ops |-> << >>],
                              !.begun = Append(@, mig[m].vs[j])]]
           ELSE mig' = [mig EXCEPT ![m] =
                    [@ EXCEPT !.pc = "idle", !.i = j, !.result = ErrBegin]]
    /\ UNCHANGED <<migrations, panicked, tableExists, rows, effects>>

\* Migrate, line 91: the loop is over, return nil
MigrateReturn(m) ==
    /\ mig[m].pc = "loop"
    /\ Selected(mig[m]) = {}
    /\ mig' = [mig EXCEPT ![m] =
            [@ EXCEPT !.pc = "idle", !.i = Len(mig[m].vs), !.result = NoErr]]
    /\ UNCHANGED <<migrations, panicked, tableExists, rows, effects>>

\* migrate, lines 152-156 and 162-165: the up or down migrationFunc runs
RunAction(m, ok) ==
    /\ mig[m].pc = "action"
    /\ LET v == mig[m].vs[mig[m].i]
           f == IF mig[m].up THEN migrations[v].up ELSE migrations[v].down
           op == [op |-> IF mig[m].up THEN "up" ELSE "down",
                  version |-> v, name |-> migrations[v].name, n |-> 0]
       IN  IF ok
           THEN mig' = [mig EXCEPT ![m] =
                    [@ EXCEPT !.pc = "record",
                              !.invoked = Append(@, v),
                              !.tx.ops = Append(@, op)]]
           ELSE /\ f = UserFunc
                /\ mig' = [mig EXCEPT ![m] =
                    [@ EXCEPT !.pc = "rollback",
                              !.invoked = Append(@, v),
                              !.failed = v,
                              !.err = ErrAction]]
    /\ UNCHANGED <<migrations, panicked, tableExists, rows, effects>>

\* queryVersionsDelete: rows of version v are deleted by the open transaction
\* of another process; a DELETE of the same rows waits until it has ended
RowsLocked(m, v) ==
    \E x \in Migrators \ {m} :
        /\ mig[x].tx.open
        /\ \E k \in 1..Len(mig[x].tx.ops) :
               /\ mig[x].tx.ops[k].op = "delete"
               /\ mig[x].tx.ops[k].version = v
               /\ mig[x].tx.ops[k].n > 0

\* RecordVersion that goes on to the commit when its statement failed
RecordVersionIgnoreErr(m, ok) ==
    /\ mig[m].pc = "record"
    /\ LET v == mig[m].vs[mig[m].i]
           op == [op |-> IF mig[m].up THEN "insert" ELSE "delete",
                  version |-> v, name |-> migrations[v].name,
                  n |-> IF mig[m].up THEN 0 ELSE CountRows(rows, v)]
       IN  mig' = [mig EXCEPT ![m] =
                    [@ EXCEPT !.pc = "commit",
                              !.tx.ops = IF ok THEN Append(@, op) ELSE @]]
    /\ UNCHANGED <<migrations, panicked, tableExists, rows, effects>>

\* migrate, lines 158-159 and 167-168: queryVersionsDelete or queryVersionsInsert
RecordVersion(m, ok) ==
    /\ mig[m].pc = "record"
    /\ LET v == mig[m].vs[mig[m].i]
           op == [op |-> IF mig[m].up THEN "insert" ELSE "delete",
                  version |-> v, name |-> migrations[v].name,
                  n |-> IF mig[m].up THEN 0 ELSE CountRows(rows, v)]
       IN  IF ok
           THEN /\ ~mig[m].up => ~RowsLocked(m, v)
                /\ mig' = [mig EXCEPT ![m] =
                    [@ EXCEPT !.pc = "commit", !.tx.ops = Append(@, op)]]
           ELSE mig' = [mig EXCEPT ![m] =
                    [@ EXCEPT !.pc = "rollback", !.err = ErrRecord]]
    /\ UNCHANGED <<migrations, panicked, tableExists, rows, effects>>

\* Migrate, lines 85-88: tx.Commit()
Commit(m, ok) ==
    /\ mig[m].pc = "commit"
    /\ IF ok
       THEN /\ rows' = ApplyRows(rows, mig[m].tx.ops)
            /\ effects' = ApplyEffects(effects, mig[m].tx.ops)
            /\ mig' = [x \in Migrators |->
                    IF x = m
                    THEN [mig[m] EXCEPT !.pc = "loop",
                                        !.tx = NoTx,
                                        !.ended = Append(@, mig[m].vs[mig[m].i]),
                                        !.committed = Append(@, mig[m].vs[mig[m].i])]
                    ELSE [mig[x] EXCEPT !.changed = TRUE]]
       ELSE /\ mig' = [mig EXCEPT ![m] =
                    [@ EXCEPT !.pc = "idle",
                              !.tx = NoTx,
                              !.ended = Append(@, mig[m].vs[mig[m].i]),
                              !.result = ErrCommit]]
            /\ UNCHANGED <<rows, effects>>
    /\ UNCHANGED <<migrations, panicked, tableExists>>

\* Rollback that goes on with the next version instead of returning
RollbackContinue(m, ok) ==
    /\ mig[m].pc = "rollback"
    /\ mig' = [mig EXCEPT ![m] = [@ EXCEPT !.pc = "loop", !.tx = NoTx]]
    /\ UNCHANGED <<migrations, panicked, tableExists, rows, effects>>

\* Rollback that returns the error and leaves the transaction as it is
RollbackMissing(m, ok) ==
    /\ mig[m].pc = "rollback"
    /\ mig' = [mig EXCEPT ![m] =
            [@ EXCEPT !.pc = "idle",
                      !.stderr = Append(@, <<"error migrating",
                                             mig[m].vs[mig[m].i], mig[m].err>>),
                      !.result = mig[m].err]]
    /\ UNCHANGED <<migrations, panicked, tableExists, rows, effects>>

\* Rollback that writes nothing to os.Stderr
RollbackSilent(m, ok) ==
    /\ mig[m].pc = "rollback"
    /\ mig' = [mig EXCEPT ![m] =
            [@ EXCEPT !.pc = "idle",
                      !.tx = NoTx,
                      !.ended = Append(@, mig[m].vs[mig[m].i]),
                      !.result = IF ok THEN mig[m].err ELSE ErrRollback]]
    /\ UNCHANGED <<migrations, panicked, tableExists, rows, effects>>

\* Migrate, lines 77-83: the line on os.Stderr, tx.Rollback() and the error
\* returned
Rollback(m, ok) ==
    /\ mig[m].pc = "rollback"
    /\ mig' = [mig EXCEPT ![m] =
            [@ EXCEPT !.pc = "idle",
                      !.tx = NoTx,
                      !.ended = Append(@, mig[m].vs[mig[m].i]),
                      !.stderr = Append(@, <<"error migrating",
                                             mig[m].vs[mig[m].i], mig[m].err>>),
                      !.result = IF ok THEN mig[m].err ELSE ErrRollback]]
    /\ UNCHANGED <<migrations, panicked, tableExists, rows, effects>>

\* Migrate, lines 51, 57, 73, 80, 82, 87: the error value handed to the
\* caller, as the sequence of the parts it is made of; every return statement
\* returns the err it got, without wrapping it
ErrorValue(r) == <<r.result>>

\* one step of a Migrate call of migrator m
MigrateStep(m) ==
    \/ \E t \in Targets, ok \in BOOLEAN : MigrateCall(m, t, ok)
    \/ \E ok \in BOOLEAN : QueryCurrent(m, ok)
    \/ \E ok \in BOOLEAN : Begin(m, ok)
    \/ MigrateReturn(m)
    \/ \E ok \in BOOLEAN : RunAction(m, ok)
    \/ \E ok \in BOOLEAN : RecordVersion(m, ok)
    \/ \E ok \in BOOLEAN : Commit(m, ok)
    \/ \E ok \in BOOLEAN : Rollback(m, ok)

Next ==
    \/ \E version \in RegisterVersions, name \in Names,
          up \in {Nil, UserFunc}, down \in {Nil, UserFunc} :
            Register(version, name, up, down)
    \/ \E m \in Single : MigrateStep(m)

Spec == Init /\ [][Next]_vars


(***************************************************************************)
(* The same program started on a database that already has a versions      *)
(* table, filled by earlier processes with registries of their own: any    *)
(* registry, any set of rows, registered or not.  The registry is the one  *)
(* built by the init functions and is not changed afterwards.              *)
(***************************************************************************)

\* versions that may have a row when the program starts
StoreVersions == RegisterVersions \cup {VMid}

\* the registry after init() and the callers' init functions registered reg
RegistryOf(reg) ==
    [v \in reg \cup {Sentinel} |->
        IF v = Sentinel
        THEN [name |-> "nil", up |-> EmptyFunc, down |-> EmptyFunc]
        ELSE [name |-> "m", up |-> UserFunc, down |-> UserFunc]]

\* a versions table with one row per version of S, in ascending order
TableOf(S) ==
    [j \in 1..Cardinality(S) |->
        [version |-> SortStrings(S)[j],
         name |-> IF SortStrings(S)[j] = Sentinel THEN "nil" ELSE "m"]]

InitStore ==
    \E reg \in SUBSET RealVersions, had \in SUBSET StoreVersions :
        /\ migrations = RegistryOf(reg)
        /\ panicked = << >>
        /\ tableExists = (had # {})
        /\ rows = TableOf(had)
        /\ effects = had
        /\ mig = [m \in Migrators |-> Idle]

NextStore == \E m \in Single : MigrateStep(m)

SpecStore == InitStore /\ [][NextStore]_vars

(***************************************************************************)
(* The program with the registry its init functions built, whatever it is, *)
(* on a fresh database; Register is not called afterwards.                 *)
(***************************************************************************)
InitFixed ==
    \E reg \in SUBSET RealVersions :
        /\ migrations = RegistryOf(reg)
        /\ panicked = << >>
        /\ tableExists = FALSE
        /\ rows = << >>
        /\ effects = {}
        /\ mig = [m \in Migrators |-> Idle]

NextFixed == \E m \in Single : MigrateStep(m)

SpecFixed == InitFixed /\ [][NextFixed]_vars

(***************************************************************************)
(* Two processes with the same registry calling Migrate on one fresh       *)
(* database, their steps interleaved.  Each statement and each commit is   *)
(* one step.  A transaction's statements become visible at its commit; a   *)
(* DELETE removes the rows it found when tx.Exec ran it, not rows another  *)
(* process committed afterwards, and waits while another open transaction  *)
(* is deleting rows of the same version.                                   *)
(***************************************************************************)

\* the real versions the two processes registered
ConcVersions == {RealVersion(1)}

\* the targets the two processes migrate to
ConcTargets == {Empty, Sentinel}

InitConc ==
    \E reg \in SUBSET ConcVersions :
        /\ migrations = RegistryOf(reg)
        /\ panicked = << >>
        /\ tableExists = FALSE
        /\ rows = << >>
        /\ effects = {}
        /\ mig = [m \in Migrators |-> Idle]

\* one step of a Migrate call of process m
ConcStep(m) ==
    \/ \E t \in ConcTargets, ok \in BOOLEAN : MigrateCall(m, t, ok)
    \/ \E ok \in BOOLEAN : QueryCurrent(m, ok)
    \/ \E ok \in BOOLEAN : Begin(m, ok)
    \/ MigrateReturn(m)
    \/ \E ok \in BOOLEAN : RunAction(m, ok)
    \/ \E ok \in BOOLEAN : RecordVersion(m, ok)
    \/ \E ok \in BOOLEAN : Commit(m, ok)
    \/ \E ok \in BOOLEAN : Rollback(m, ok)

NextConc == \E m \in Migrators : ConcStep(m)

SpecConc == InitConc /\ [][NextConc]_vars

(***************************************************************************)
(* Status, called between the Migrate calls of a program started on an     *)
(* existing database.                                                      *)
(***************************************************************************)

\* Status, lines 102-108: the lines printed for the versions vs read from the
\* table, one "[%s] %s %s" line per element of sorted()
StatusLines(vs) ==
    [j \in 1..Len(sorted) |->
        <<IF applied(sorted[j], vs) THEN "x" ELSE " ",
          sorted[j],
          migrations[sorted[j]].name>>]

\* Status that creates the versions table as Migrate does
StatusCreatesTable(m, ok) ==
    /\ panicked = << >>
    /\ mig[m].pc = "idle"
    /\ tableExists' = TRUE
    /\ mig' = [mig EXCEPT ![m] =
            IF ok
            THEN [Idle EXCEPT !.status = NoErr, !.printed = StatusLines(rows)]
            ELSE [Idle EXCEPT !.status = ErrQuery]]
    /\ UNCHANGED <<migrations, panicked, rows, effects>>

\* Status, lines 96-111: versions(db) reads the whole table, which fails when
\* the table does not exist; then the lines are printed
Status(m, ok) ==
    /\ panicked = << >>
    /\ mig[m].pc = "idle"
    /\ mig' = [mig EXCEPT ![m] =
            IF ok /\ tableExists
            THEN [Idle EXCEPT !.status = NoErr, !.printed = StatusLines(rows)]
            ELSE [Idle EXCEPT !.status = ErrQuery]]
    /\ UNCHANGED <<migrations, panicked, tableExists, rows, effects>>

NextStatus ==
    \/ \E m \in Single : MigrateStep(m)
    \/ \E m \in Single, ok \in BOOLEAN : Status(m, ok)

SpecStatus == InitStore /\ [][NextStatus]_vars

(***************************************************************************)
(* Vocabulary of the properties.                                           *)
(***************************************************************************)

\* s back to front
Rev(s) == [j \in 1..Len(s) |-> s[Len(s) + 1 - j]]

\* the first k elements of s
Prefix(s, k) == [j \in 1..k |-> s[j]]

\* the call of r has read the current version and chosen its direction
HasPlan(r) ==
    \/ r.pc \in {"loop", "action", "record", "commit", "rollback"}
    \/ r.pc = "idle" /\ r.result \notin {"none", ErrExec, ErrQuery}

\* the call of r has returned
Returned(r) == r.pc = "idle" /\ r.result # "none"

\* the registry is the one the call of r started with
SameRegistry(r) == ~r.changed

StrictlyAscending(s) ==
    \A j, k \in 1..Len(s) : j < k => StrLess(s[j], s[k])

StrictlyDescending(s) ==
    \A j, k \in 1..Len(s) : j < k => StrLess(s[k], s[j])

\* the registered versions v with lo < v <= hi
Between(lo, hi) ==
    {v \in DOMAIN migrations : StrLess(lo, v) /\ StrLessEq(v, hi)}

\* the plan the specification gives for current and target
ExpectedPlan(current, target) ==
    IF StrLess(target, current)
    THEN Rev(SortStrings(Between(target, current)))
    ELSE SortStrings(Between(current, target))

\* the rows the first n entries of an UP plan add
PlanRows(plan, n) ==
    [j \in 1..n |-> [version |-> plan[j], name |-> migrations[plan[j]].name]]

\* the versions that have a row
AppliedSet(table) == {table[j].version : j \in 1..Len(table)}

(***************************************************************************)
(* C1.  When current <= target (the target after "" is resolved to the     *)
(* latest version) Migrate runs UP, and the versions whose up action it    *)
(* invokes are registered versions v with current < v <= target, in        *)
(* strictly ascending order without skipping any; when the call returns    *)
(* nil they are all of them.                                               *)
(***************************************************************************)
C1_UpPlan ==
    \A m \in Migrators :
        LET r == mig[m]
            want == Between(r.current, r.target)
        IN  (HasPlan(r) /\ SameRegistry(r) /\ StrLessEq(r.current, r.target)) =>
                /\ r.up
                /\ StrictlyAscending(r.invoked)
                /\ Range(r.invoked) \subseteq want
                /\ \A v \in want, w \in Range(r.invoked) :
                        StrLess(v, w) => v \in Range(r.invoked)
                /\ r.result = NoErr => Range(r.invoked) = want

\* an UP call from current = sentinel that invoked three up actions and returned nil
C1_Witness ==
    \E m \in Migrators :
        /\ Returned(mig[m]) /\ mig[m].result = NoErr /\ mig[m].up
        /\ mig[m].current = Sentinel
        /\ Len(mig[m].invoked) = 3

(***************************************************************************)
(* C2.  When current > target Migrate runs DOWN, and the versions whose    *)
(* down action it invokes are registered versions v with                   *)
(* target < v <= current, in strictly descending order without skipping    *)
(* any; when the call returns nil they are all of them.  The target is     *)
(* never reverted.                                                         *)
(***************************************************************************)
C2_DownPlan ==
    \A m \in Migrators :
        LET r == mig[m]
            want == Between(r.target, r.current)
        IN  (HasPlan(r) /\ SameRegistry(r) /\ StrLess(r.target, r.current)) =>
                /\ ~r.up
                /\ StrictlyDescending(r.invoked)
                /\ Range(r.invoked) \subseteq want
                /\ r.target \notin Range(r.invoked)
                /\ \A v \in want, w \in Range(r.invoked) :
                        StrLess(w, v) => v \in Range(r.invoked)
                /\ r.result = NoErr => Range(r.invoked) = want

\* a DOWN call to a registered real target that invoked two down actions and returned nil
C2_Witness ==
    \E m \in Migrators :
        /\ Returned(mig[m]) /\ mig[m].result = NoErr /\ ~mig[m].up
        /\ mig[m].target \in RealVersions \cap DOMAIN migrations
        /\ Len(mig[m].invoked) = 2


(***************************************************************************)
(* C3.  With exactly the sentinel and the real versions A < B < C          *)
(* registered and no row in the table, Migrate(db, "") that returns nil    *)
(* has invoked the up actions of the sentinel, A, B and C in that order    *)
(* and committed all four; the current version afterwards is C.            *)
(***************************************************************************)
ScenarioABC(r) ==
    /\ Returned(r) /\ r.result = NoErr /\ SameRegistry(r)
    /\ DOMAIN migrations = {Sentinel, RealVersion(1), RealVersion(2), RealVersion(3)}
    /\ r.rows0 = << >>
    /\ r.arg = Empty

C3_LatestFromEmpty ==
    \A m \in Migrators :
        LET r == mig[m]
            plan == <<Sentinel, RealVersion(1), RealVersion(2), RealVersion(3)>>
        IN  ScenarioABC(r) =>
                /\ r.up
                /\ r.invoked = plan
                /\ r.begun = plan
                /\ r.committed = plan
                /\ AppliedSet(rows) = Range(plan)
                /\ currentVersion(rows) = RealVersion(3)

\* the scenario has run to its end
C3_Witness ==
    \E m \in Migrators : ScenarioABC(mig[m]) /\ Len(rows) = 4

\* C3 as stated: the plan is [A, B, C] and three transactions are committed
C3_Original ==
    \A m \in Migrators :
        LET r == mig[m]
            plan == <<RealVersion(1), RealVersion(2), RealVersion(3)>>
        IN  ScenarioABC(r) =>
                /\ r.invoked = plan
                /\ r.committed = plan
                /\ currentVersion(rows) = RealVersion(3)

(***************************************************************************)
(* C4.  The sentinel is applied like every registered version: a call      *)
(* inserts the sentinel's row only when it runs UP with                    *)
(* current < sentinel <= target, and a call that runs UP with              *)
(* current < sentinel <= target and returns nil has inserted it, whether   *)
(* or not the target is the sentinel.  A call whose target sorts below     *)
(* the sentinel never inserts it.                                          *)
(***************************************************************************)
SentinelInserted(r) == r.up /\ Sentinel \in Range(r.committed)

C4_SentinelApplied ==
    \A m \in Migrators :
        LET r == mig[m]
        IN  HasPlan(r) =>
                /\ SentinelInserted(r) =>
                        StrLess(r.current, Sentinel) /\ StrLessEq(Sentinel, r.target)
                /\ (/\ r.result = NoErr /\ r.up
                    /\ StrLess(r.current, Sentinel)
                    /\ StrLessEq(Sentinel, r.target)) =>
                        /\ SentinelInserted(r)
                        /\ applied(Sentinel, rows)
                /\ StrLess(r.target, Sentinel) => ~SentinelInserted(r)

\* a call whose target is a real version returned nil and left the sentinel's row
C4_Witness ==
    \E m \in Migrators :
        /\ Returned(mig[m]) /\ mig[m].result = NoErr
        /\ mig[m].target \in RealVersions
        /\ SentinelInserted(mig[m])
        /\ applied(Sentinel, rows)

\* C4 as stated: a call whose target is not the sentinel never inserts the sentinel's row
C4_Original ==
    \A m \in Migrators :
        (HasPlan(mig[m]) /\ mig[m].target # Sentinel) => ~SentinelInserted(mig[m])


(***************************************************************************)
(* C5.  When the action of the k-th version of the plan has failed and     *)
(* Migrate has returned: it returned an error, a transaction was begun     *)
(* and an action invoked for entries 1..k and for no later entry, entries  *)
(* 1..k-1 are committed, the table holds the rows it held at the call      *)
(* with the bookkeeping of entries 1..k-1 done and that of entry k not     *)
(* done, and no transaction is open.                                       *)
(***************************************************************************)
\* the position of v in the plan
PlanIndex(plan, v) == CHOOSE k \in 1..Len(plan) : plan[k] = v

ActionFailed(r) == Returned(r) /\ r.failed # Empty /\ SameRegistry(r)

C5_AbortOnActionFailure ==
    \A m \in Migrators :
        LET r == mig[m]
            plan == ExpectedPlan(r.current, r.target)
        IN  ActionFailed(r) =>
                /\ r.result \in {ErrAction, ErrRollback}
                /\ r.failed \in Range(plan)
                /\ LET k == PlanIndex(plan, r.failed)
                       done == {plan[j] : j \in 1..(k - 1)}
                   IN  /\ r.begun = Prefix(plan, k)
                       /\ r.invoked = Prefix(plan, k)
                       /\ r.committed = Prefix(plan, k - 1)
                       /\ rows = IF r.up
                                 THEN r.rows0 \o PlanRows(plan, k - 1)
                                 ELSE SelectSeq(r.rows0, LAMBDA x : x.version \notin done)
                       /\ r.up => ~applied(r.failed, rows)
                       /\ ~r.up => (applied(r.failed, rows) <=> applied(r.failed, r.rows0))
                /\ ~r.tx.open

\* the second of three planned UP migrations failed
C5_Witness ==
    \E m \in Migrators :
        LET r == mig[m]
            plan == ExpectedPlan(r.current, r.target)
        IN  /\ ActionFailed(r) /\ r.up
            /\ Len(plan) = 3
            /\ r.failed = plan[2]
            /\ Len(rows) = Len(r.rows0) + 1


(***************************************************************************)
(* C6.  Idempotence: a Migrate call that immediately follows a call with   *)
(* the same target that returned nil, with no change to the registry or    *)
(* the table in between, begins no transaction, invokes no action, leaves  *)
(* the table as it is and, when the database answers its two queries,      *)
(* returns nil.                                                            *)
(***************************************************************************)
C6_Idempotent ==
    \A m \in Migrators :
        LET r == mig[m]
        IN  r.again =>
                /\ r.begun = << >>
                /\ r.invoked = << >>
                /\ ~r.tx.open
                /\ rows = r.rows0
                /\ (Returned(r) /\ r.result \notin {ErrExec, ErrQuery}) =>
                        r.result = NoErr


(***************************************************************************)
(* C7.  Round trip: when a call went UP from an empty table to a           *)
(* registered version and returned nil, and the next call has the          *)
(* sentinel as target and returns nil, no real version has a row.          *)
(***************************************************************************)
RoundTripDone(r) ==
    /\ r.afterUp
    /\ r.arg = Sentinel
    /\ Returned(r) /\ r.result = NoErr

C7_RoundTrip ==
    \A m \in Migrators :
        RoundTripDone(mig[m]) => AppliedSet(rows) \subseteq {Sentinel}

\* a round trip that reverted two real versions
C7_Witness ==
    \E m \in Migrators :
        /\ RoundTripDone(mig[m])
        /\ ~mig[m].up
        /\ Len(mig[m].committed) = 2
        /\ AppliedSet(rows) = {Sentinel}

(***************************************************************************)
(* C8.  With A < B < C registered and applied and current = C,             *)
(* Migrate(db, A) that returns nil ran DOWN, invoked the down actions of   *)
(* C and B in that order and committed them; A's row is still there and    *)
(* the current version afterwards is A.                                    *)
(***************************************************************************)
ScenarioDownToA(r) ==
    /\ Returned(r) /\ r.result = NoErr
    /\ {RealVersion(1), RealVersion(2), RealVersion(3)} \subseteq Range(r.vs)
    /\ {RealVersion(1), RealVersion(2), RealVersion(3)} \subseteq AppliedSet(r.rows0)
    /\ r.current = RealVersion(3)
    /\ r.arg = RealVersion(1)

C8_DownToA ==
    \A m \in Migrators :
        LET r == mig[m]
            plan == <<RealVersion(3), RealVersion(2)>>
        IN  ScenarioDownToA(r) =>
                /\ ~r.up
                /\ r.invoked = plan
                /\ r.begun = plan
                /\ r.committed = plan
                /\ applied(RealVersion(1), rows)
                /\ ~applied(RealVersion(2), rows)
                /\ ~applied(RealVersion(3), rows)
                /\ currentVersion(rows) = RealVersion(1)

\* the scenario has run to its end
C8_Witness ==
    \E m \in Migrators :
        ScenarioDownToA(mig[m]) /\ AppliedSet(rows) = {Sentinel, RealVersion(1)}

(***************************************************************************)
(* C10.  A step of Register that panics leaves the registry as it is, and  *)
(* it panics only for a nil up or down or for a version that is already    *)
(* registered; a step that changes the registry does not panic, adds one   *)
(* entry for a version that had none, with up and down not nil, and        *)
(* alters no entry.                                                        *)
(***************************************************************************)
RegisterContract ==
    /\ panicked' # panicked =>
        /\ migrations' = migrations
        /\ \/ /\ panicked'[1] = "required"
              /\ panicked'[2] = Nil \/ panicked'[3] = Nil
           \/ /\ panicked'[1] = "twice"
              /\ panicked'[2] \in DOMAIN migrations
    /\ migrations' # migrations =>
        /\ panicked' = panicked
        /\ \E v \in DOMAIN migrations' \ DOMAIN migrations :
            /\ DOMAIN migrations' = DOMAIN migrations \cup {v}
            /\ migrations'[v].up # Nil
            /\ migrations'[v].down # Nil
        /\ \A w \in DOMAIN migrations : migrations'[w] = migrations[w]

C10_Register == [][RegisterContract]_vars

\* Register panicked for the sentinel's version after two versions were added
C10_Witness ==
    /\ panicked = <<"twice", Sentinel>>
    /\ Cardinality(DOMAIN migrations) = 3


(***************************************************************************)
(* C9.  A call with the empty target behaves as a call whose target is     *)
(* the greatest registered version g: its target is g, it runs DOWN        *)
(* exactly when current > g, and the actions it invokes are, in order,     *)
(* the plan for current and g: a prefix of it while it runs and after a    *)
(* failure, all of it when it returns nil.                                 *)
(***************************************************************************)
Greatest == CHOOSE g \in DOMAIN migrations : \A v \in DOMAIN migrations : StrLessEq(v, g)

IsPrefix(s, t) == Len(s) <= Len(t) /\ s = Prefix(t, Len(s))

C9_EmptyTargetIsLatest ==
    \A m \in Migrators :
        LET r == mig[m]
            plan == ExpectedPlan(r.current, Greatest)
        IN  (HasPlan(r) /\ SameRegistry(r) /\ r.arg = Empty) =>
                /\ r.target = Greatest
                /\ r.up <=> ~StrLess(Greatest, r.current)
                /\ IsPrefix(r.invoked, plan)
                /\ r.result = NoErr => r.invoked = plan

\* a call with the empty target, from a table that has rows, that invoked two
\* actions and returned nil
C9_Witness ==
    /\ mig["m1"].arg = Empty
    /\ Returned(mig["m1"]) /\ mig["m1"].result = NoErr
    /\ Len(mig["m1"].invoked) = 2
    /\ mig["m1"].current # Empty

\* the call of r returned because the bookkeeping statement or the commit
\* failed after the action of the entry succeeded
BookkeepingFailed(r) ==
    /\ Returned(r)
    /\ SameRegistry(r)
    /\ r.err = ErrRecord \/ r.result = ErrCommit

\* the table and the effects the committed entries of r leave from rows0
AfterCommitted(r) ==
    IF r.up THEN AppliedSet(r.rows0) \cup Range(r.committed)
    ELSE AppliedSet(r.rows0) \ Range(r.committed)

(***************************************************************************)
(* C11.  Each migration is atomic.  In the committed state the effect of   *)
(* a version's action is present exactly when the version has a row.  When *)
(* the bookkeeping statement or the commit fails after the action          *)
(* succeeded, Migrate returns an error, the entry is the last one it       *)
(* processed, and the table and the effects are those left by the entries  *)
(* committed before it: for the failed entry the row and the effect are as *)
(* they were when the call started.                                        *)
(***************************************************************************)
C11_Atomic ==
    /\ \A v \in DOMAIN migrations \cup effects \cup AppliedSet(rows) :
           v \in effects <=> applied(v, rows)
    /\ \A m \in Single :
           LET r == mig[m]
           IN  BookkeepingFailed(r) =>
                   /\ r.result \in {ErrRecord, ErrCommit, ErrRollback}
                   /\ r.begun = r.invoked
                   /\ r.invoked = Append(r.committed, r.vs[r.i])
                   /\ ~r.tx.open
                   /\ AppliedSet(rows) = AfterCommitted(r)
                   /\ effects = AfterCommitted(r)
                   /\ applied(r.vs[r.i], rows) <=> applied(r.vs[r.i], r.rows0)
                   /\ r.vs[r.i] \in effects <=> applied(r.vs[r.i], r.rows0)

\* a commit failed on the second entry of an UP run, after a first commit
C11_Witness ==
    \E m \in Single :
        LET r == mig[m]
        IN  /\ BookkeepingFailed(r)
            /\ r.result = ErrCommit
            /\ r.up
            /\ Len(r.committed) = 1
            /\ r.i < Len(r.vs)

(***************************************************************************)
(* C12, as stated.  When the action of version v fails, the error Migrate  *)
(* returns to its caller identifies v.                                     *)
(***************************************************************************)
C12_Original ==
    \A m \in Single :
        LET r == mig[m]
        IN  Returned(r) /\ r.failed # Empty =>
                r.failed \in Range(ErrorValue(r))

(***************************************************************************)
(* C12, amended.  When the action of version v fails, Migrate writes one   *)
(* line with v and the action's error to os.Stderr and returns the         *)
(* action's error as it got it, or the error of the rollback when the      *)
(* rollback fails; the returned error does not name v.                     *)
(***************************************************************************)
C12_ErrorContext ==
    \A m \in Single :
        LET r == mig[m]
        IN  Returned(r) /\ r.failed # Empty =>
                /\ r.failed = r.vs[r.i]
                /\ ErrorValue(r) \in {<<ErrAction>>, <<ErrRollback>>}
                /\ r.failed \notin Range(ErrorValue(r))
                /\ r.stderr = << <<"error migrating", r.failed, ErrAction>> >>

\* the action of the second entry of a plan failed and the rollback succeeded
C12_Witness ==
    \E m \in Single :
        LET r == mig[m]
        IN  /\ Returned(r)
            /\ r.failed # Empty
            /\ r.result = ErrAction
            /\ Len(r.committed) = 1

\* the lines of a successful Status call of r describe registry and table
StatusReport(r) ==
    /\ Len(r.printed) = Cardinality(DOMAIN migrations)
    /\ {r.printed[j][2] : j \in 1..Len(r.printed)} = DOMAIN migrations
    /\ StrictlyAscending([j \in 1..Len(r.printed) |-> r.printed[j][2]])
    /\ \A j \in 1..Len(r.printed) :
           /\ r.printed[j][1] \in {"x", " "}
           /\ r.printed[j][1] = "x" <=>
                  \E k \in 1..Len(rows) : rows[k].version = r.printed[j][2]
           /\ r.printed[j][3] = migrations[r.printed[j][2]].name

(***************************************************************************)
(* C13.  Status only reports.  A Status call leaves the registry, the      *)
(* versions table (its existence and its rows) and the effects of the      *)
(* migrations as they were; when it succeeds it has printed one line per   *)
(* registered version, in strictly ascending order of version, marked "x"  *)
(* exactly when the table has a row with that very version string; when    *)
(* it fails it has printed nothing.                                        *)
(***************************************************************************)
C13_StatusReadOnly ==
    [][\A m \in Single :
           mig'[m].status # "none" =>
               /\ UNCHANGED <<migrations, panicked, tableExists, rows, effects>>
               /\ mig'[m].status = NoErr => StatusReport(mig'[m])
               /\ mig'[m].status # NoErr => mig'[m].printed = << >>]_vars

\* Status succeeded on a table that has rows of registered versions, lacks
\* the row of a registered version and has the row of an unregistered one
C13_Witness ==
    \E m \in Single :
        LET r == mig[m]
        IN  /\ r.status = NoErr
            /\ \E j, k \in 1..Len(r.printed) :
                   r.printed[j][1] = "x" /\ r.printed[k][1] = " "
            /\ applied(VMid, rows)
            /\ Len(r.printed) = MaxReal + 1

\* the number of transactions the call of r has begun and not yet ended
OpenTxs(r) == Len(r.begun) - Len(r.ended)

(***************************************************************************)
(* C14.  A Migrate call has at most one transaction open: the              *)
(* transactions it has ended by Commit or Rollback are those it has begun, *)
(* in the same order, except the one it is working in; so each is ended    *)
(* before the next is begun.  Between two entries of the plan and when     *)
(* the call has returned, with nil or with any error, none is open.        *)
(***************************************************************************)
C14_OneTransaction ==
    \A m \in Single :
        LET r == mig[m]
        IN  /\ Len(r.ended) <= Len(r.begun)
            /\ r.ended = SubSeq(r.begun, 1, Len(r.ended))
            /\ OpenTxs(r) \in {0, 1}
            /\ r.tx.open <=> OpenTxs(r) = 1
            /\ r.tx.open <=> r.pc \in {"action", "record", "commit", "rollback"}
            /\ r.tx.open => r.begun[Len(r.begun)] = r.vs[r.i]
            /\ Returned(r) => OpenTxs(r) = 0 /\ ~r.tx.open

\* the call returned the error of a failed rollback of its second transaction
C14_Witness ==
    \E m \in Single :
        LET r == mig[m]
        IN  /\ Returned(r)
            /\ r.result = ErrRollback
            /\ Len(r.begun) = 2
            /\ Len(r.committed) = 1

(***************************************************************************)
(* C15.  Migrate creates the versions table and reads the current version  *)
(* before it begins a transaction: a call that has begun one has the       *)
(* table and a current version read from it.  A call that returned because *)
(* the table could not be created or the current version could not be      *)
(* read returned an error, began no transaction, invoked no action and     *)
(* left the rows as they were.  Reading an empty table is no error: the    *)
(* current version is then "", the direction is UP and every registered    *)
(* version is above it.                                                    *)
(***************************************************************************)
C15_SchemaAndCurrentFirst ==
    \A m \in Single :
        LET r == mig[m]
        IN  /\ r.pc = "current" => tableExists /\ r.begun = << >>
            /\ r.begun # << >> => tableExists /\ HasPlan(r)
            /\ HasPlan(r) => r.current = currentVersion(r.rows0)
            /\ Returned(r) /\ r.result \in {ErrExec, ErrQuery} =>
                   /\ ErrorValue(r) # <<NoErr>>
                   /\ r.begun = << >>
                   /\ r.invoked = << >>
                   /\ r.ended = << >>
                   /\ ~r.tx.open
                   /\ rows = r.rows0
                   /\ r.result = ErrExec => r.stderr = << >>
            /\ HasPlan(r) /\ r.rows0 = << >> =>
                   /\ r.current = Empty
                   /\ r.up
                   /\ \A v \in Range(r.vs) : StrLess(r.current, v)

\* the read of the current version failed on a table that has rows
C15_Witness ==
    \E m \in Single :
        LET r == mig[m]
        IN  /\ Returned(r)
            /\ r.result = ErrQuery
            /\ Len(r.rows0) > 1

\* the registered versions below v, and those above v
LowerRegistered(v) == {w \in DOMAIN migrations : StrLess(w, v)}
HigherRegistered(v) == {w \in DOMAIN migrations : StrLess(v, w)}

(***************************************************************************)
(* C16.  With a fixed registry and a table that was empty at the start,    *)
(* in every Migrate call of a single migrator: while the transaction of    *)
(* version v is open in an UP run, so when v's up action is invoked, every *)
(* registered version below v has a row; in a DOWN run, when v's down      *)
(* action is invoked, v has a row and no registered version above v has    *)
(* one.                                                                    *)
(***************************************************************************)
C16_ActionOrder ==
    \A m \in Single :
        LET r == mig[m]
        IN  r.tx.open =>
                IF r.up
                THEN \A w \in LowerRegistered(r.vs[r.i]) : applied(w, rows)
                ELSE /\ applied(r.vs[r.i], rows)
                     /\ \A w \in HigherRegistered(r.vs[r.i]) : ~applied(w, rows)

\* the down action of the middle real version has run, in a run that
\* reverted the latest version before
C16_Witness ==
    \E m \in Single :
        LET r == mig[m]
        IN  /\ r.pc = "record"
            /\ ~r.up
            /\ Len(r.vs) = MaxReal + 1
            /\ r.invoked = <<RealVersion(3), RealVersion(2)>>
            /\ r.committed = <<RealVersion(3)>>

\* the number of rows of the table with version v
RowsOf(v) == Cardinality({j \in 1..Len(rows) : rows[j].version = v})

(***************************************************************************)
(* C17.  Nothing excludes two Migrate calls from each other.  A process    *)
(* commits the UP entry it is working on whatever the other process has    *)
(* committed since it read the current version: the commit adds one more   *)
(* row for the version, also when the version has a row already, and at    *)
(* most as many rows per version as there are processes.  So both          *)
(* processes can run and commit the up action of one version and leave     *)
(* two rows for it.                                                        *)
(***************************************************************************)
C17_NoMutualExclusion ==
    [][\A m \in Migrators :
           mig[m].pc = "commit" /\ mig[m].up /\ mig'[m].pc = "loop" =>
               LET v == mig[m].vs[mig[m].i]
               IN  /\ rows' = Append(rows, [version |-> v,
                                            name |-> migrations[v].name])
                   /\ RowsOf(v)' = RowsOf(v) + 1
                   /\ RowsOf(v)' <= Cardinality(Migrators)]_vars

\* both processes have run and committed the up action of the real version,
\* each in a run that read an empty table, and the version has two rows
C17_Witness ==
    /\ RowsOf(RealVersion(1)) = 2
    /\ \A m \in Migrators :
           /\ mig[m].up
           /\ mig[m].rows0 = << >>
           /\ mig[m].current = Empty
           /\ RealVersion(1) \in Range(mig[m].invoked)
           /\ RealVersion(1) \in Range(mig[m].committed)

(***************************************************************************)
(* C18.  With a fixed registry and a table that was empty at the start,    *)
(* whatever Migrate calls a single migrator has made, to any targets,      *)
(* finished or aborted: every version with a row is registered, every      *)
(* registered version below a version with a row has a row, and no         *)
(* version has more than one row.                                          *)
(***************************************************************************)
C18_AppliedPrefix ==
    /\ AppliedSet(rows) \subseteq DOMAIN migrations
    /\ \A v \in AppliedSet(rows) :
           \A w \in LowerRegistered(v) : applied(w, rows)
    /\ \A v \in AppliedSet(rows) : RowsOf(v) = 1
    /\ Len(rows) = Cardinality(AppliedSet(rows))

\* an UP run that found one row was aborted after its first commit: a
\* proper, nonempty prefix of the registry is applied
C18_Witness ==
    \E m \in Single :
        LET r == mig[m]
        IN  /\ Returned(r)
            /\ r.result # NoErr
            /\ r.up
            /\ Len(r.committed) = 1
            /\ Len(r.rows0) = 1
            /\ Len(rows) = 2
            /\ Cardinality(DOMAIN migrations) = MaxReal + 1

(***************************************************************************)
(* C19.  When the versions with a row at the start of a call are any       *)
(* subset of the registered versions and Migrate(db, "") returns nil,      *)
(* every registered version has a row.                                     *)
(***************************************************************************)
C19_LatestAppliesAll ==
    \A m \in Single :
        LET r == mig[m]
        IN  /\ Returned(r)
            /\ r.result = NoErr
            /\ r.arg = Empty
            /\ AppliedSet(r.rows0) \subseteq DOMAIN migrations
            => \A v \in DOMAIN migrations : applied(v, rows)

\* the greatest registered version that is <= t, or "" when there is none
FloorRegistered(t) ==
    LET S == {v \in DOMAIN migrations : StrLessEq(v, t)}
    IN  IF S = {} THEN Empty
        ELSE CHOOSE x \in S : \A y \in S : StrLessEq(y, x)

(***************************************************************************)
(* C20.  When a Migrate call of a single migrator returns nil, on a table  *)
(* that only Migrate has written since it was empty, the current version   *)
(* is the target if the target is registered (the latest version for the   *)
(* target ""), and otherwise the greatest registered version below the     *)
(* target, or "" when there is none.                                       *)
(***************************************************************************)
C20_ReachesTarget ==
    \A m \in Single :
        LET r == mig[m]
        IN  Returned(r) /\ r.result = NoErr /\ SameRegistry(r) =>
                currentVersion(rows) = FloorRegistered(r.target)

====
